---- MODULE Spec2Model ----
(***************************************************************************)
(* Annotation / memory lifecycle controller of the reading companion       *)
(* (App component, src/unnamed/part_004) together with the Reader effect   *)
(* that delivers page changes (src/components/Sidebar.tsx).                *)
(*                                                                         *)
(* React semantics the model follows:                                      *)
(*  - a handler is a closure over the values of the render that created    *)
(*    it; `view` is that render's snapshot of the state;                   *)
(*  - refs (lastScannedPageRef, lastConsolidatedCountRef) are read and     *)
(*    written immediately;                                                 *)
(*  - a click is a discrete event: React runs the handler and flushes the  *)
(*    re-render before the next event, so a click handler commits          *)
(*    atomically (handler; render; effects);                               *)
(*  - updates made from a promise continuation or from a passive effect    *)
(*    are rendered later, by the separate Render step; a handler that      *)
(*    runs before that step still holds the previous snapshot.             *)
(***************************************************************************)
EXTENDS Integers, Sequences, FiniteSets, TLC

VARIABLES
  appState,                  \* 'library' | 'reading'
  activeBookId,              \* id of the open book, NoBook when none
  library,                   \* ids of the books in the library
  originals,                 \* ids of the books with isOriginal
  nextBookId,                \* next fresh book id (Date.now() never repeats)
  customPersonas,            \* user-created personas, in order
  nextPersonaId,             \* next fresh persona id (Date.now())
  persona,                   \* the active persona object
  engineConfig,              \* the fields of EngineConfig the controller reads
  annotations,               \* all annotations, newest first
  isProcessing,              \* explicit-request flag
  isAutoScanning,            \* autonomous-scan flag
  pendingSelection,          \* selection waiting in the action modal
  lastScannedPageRef,        \* content of the page scanned last
  lastConsolidatedCountRef,  \* annotation count at the last consolidation
  toast,                     \* message currently shown, NoToast when none
  view,                      \* state snapshot of the last render
  scanTimers,                \* initial scans waiting for their timeout
  scanTasks,                 \* autonomousScan requests in flight
  memTasks,                  \* consolidateMemory requests in flight
  aiTasks,                   \* explicit annotation requests in flight
  scannedPages,              \* contents passed to autonomousScan so far
  engine,                    \* the EngineConfig the service functions receive
  call,                      \* last service call: request sent, value returned
  activeAnnotation,          \* annotation open in the modal, Null when none
  chatHistory,               \* stored chatHistory of each annotation
  messages,                  \* AnnotationModal: the thread on screen
  isTyping,                  \* AnnotationModal: a reply is awaited
  bookReview,                \* stored rating / userReview / aiReview
  isSubmittingReview,        \* ReadingReportModal: a review reply is awaited
  replyTasks                 \* provider calls of the two modals in flight

appVars == <<appState, activeBookId, library, originals, nextBookId,
             customPersonas, nextPersonaId, persona, engineConfig,
             annotations, isProcessing, isAutoScanning, pendingSelection,
             lastScannedPageRef, lastConsolidatedCountRef, toast, view,
             scanTimers, scanTasks, memTasks, aiTasks, scannedPages>>

serviceVars == <<engine, call>>

modalVars == <<activeAnnotation, chatHistory, messages, isTyping, bookReview,
               isSubmittingReview, replyTasks>>

vars == <<appVars, serviceVars, modalVars>>

----------------------------------------------------------------------------
(* Bounds *)

MaxBooks == 1          \* books ever imported
MaxAnnotations == 2    \* annotations stored at once
MaxResults == 2        \* passages in one scan response
MaxInFlight == 2       \* requests of one kind outstanding at once
MaxThreshold == 2      \* largest autoMemoryThreshold the settings offer
MaxCustomPersonas == 1 \* personas ever created by the user

Selections == {"X", "Y", "Z"}     \* passages a user or the provider can pick
Pages == {"A", "B"}               \* page contents the Reader can deliver
FirstParagraphs == {"A"}          \* a short work: its first paragraph is its first page
ProviderMemories == {"m1", "m2"}  \* texts a consolidation can return
UserMemory == "u1"                \* memory text typed in the persona editor

NoBook == 0
Null == "null"
NoToast == "none"

----------------------------------------------------------------------------
(* Data *)

\* process.env.API_KEY of the build
EnvApiKey == FALSE

\* the built-in personas, with the fields the controller reads; the first
\* one stands for all four
DEFAULT_PERSONAS == << [id |-> "socrates", longTermMemory |-> ""] >>

allPersonas(custom) == DEFAULT_PERSONAS \o custom

Range(s) == { s[i] : i \in 1..Len(s) }

\* (engineConfig.apiKey || process.env.API_KEY)
HasApiKey(cfg) == cfg.apiKey \/ EnvApiKey

\* annotations.filter(a => a.bookId === activeBookId)
bookAnnotationsOf(annos, id) == SelectSeq(annos, LAMBDA a : a.bookId = id)

\* prev.map(p => p.id === q.id ? q : p)
ReplaceById(ps, q) == [ i \in 1..Len(ps) |-> IF ps[i].id = q.id THEN q ELSE ps[i] ]

\* all lists of at most n passages
RECURSIVE SeqsUpTo(_, _)
SeqsUpTo(S, n) ==
  IF n = 0 THEN { <<>> }
  ELSE LET shorter == SeqsUpTo(S, n - 1)
       IN shorter \cup { Append(s, x) : s \in { t \in shorter : Len(t) = n - 1 }, x \in S }

ScanResponses == SeqsUpTo(Selections, MaxResults)

RemoveAt(s, i) == SubSeq(s, 1, i - 1) \o SubSeq(s, i + 1, Len(s))

----------------------------------------------------------------------------
(* Rendering *)

\* the values a render hands to the handlers and effects it creates
Snapshot(ab, lib, annos, pers, custom, cfg, proc, scanning, pending) ==
  [ activeBookId     |-> ab,
    activeBook       |-> ab \in lib,
    bookAnnotations  |-> bookAnnotationsOf(annos, ab),
    persona          |-> pers,
    customPersonas   |-> custom,
    engineConfig     |-> cfg,
    isProcessing     |-> proc,
    isAutoScanning   |-> scanning,
    pendingSelection |-> pending ]

CurrentSnapshot ==
  Snapshot(activeBookId, library, annotations, persona, customPersonas,
           engineConfig, isProcessing, isAutoScanning, pendingSelection)

\* the effect without its multiple-of-threshold test
ShouldConsolidate_NoModulo(v, last) ==
  /\ v.engineConfig.autoMemoryThreshold > 0
  /\ v.activeBook
  /\ Len(v.bookAnnotations) > 0
  /\ Len(v.bookAnnotations) # last
  /\ HasApiKey(v.engineConfig)

\* the effect without its lastConsolidatedCountRef test
ShouldConsolidate_NoRef(v, last) ==
  /\ v.engineConfig.autoMemoryThreshold > 0
  /\ v.activeBook
  /\ Len(v.bookAnnotations) > 0
  /\ Len(v.bookAnnotations) % v.engineConfig.autoMemoryThreshold = 0
  /\ HasApiKey(v.engineConfig)

\* condition of the auto-memory effect
ShouldConsolidate(v, last) ==
  /\ v.engineConfig.autoMemoryThreshold > 0
  /\ v.activeBook
  /\ Len(v.bookAnnotations) > 0
  /\ Len(v.bookAnnotations) % v.engineConfig.autoMemoryThreshold = 0
  /\ Len(v.bookAnnotations) # last
  /\ HasApiKey(v.engineConfig)

\* the auto-memory effect, run with the values of the render `v`;
\* `shown` is the toast the handler of this event has set
AutoMemoryEffect(v, shown) ==
  IF ShouldConsolidate(v, lastConsolidatedCountRef)
  THEN /\ Len(memTasks) < MaxInFlight
       /\ lastConsolidatedCountRef' = Len(v.bookAnnotations)
       /\ memTasks' = Append(memTasks,
                             [ persona |-> v.persona, count |-> Len(v.bookAnnotations) ])
       /\ toast' = "Auto-consolidating memories..."
  ELSE /\ UNCHANGED <<lastConsolidatedCountRef, memTasks>>
       /\ toast' = shown

\* render with the new state, then run the effects
CommitRender(shown) ==
  /\ view' = Snapshot(activeBookId', library', annotations', persona',
                      customPersonas', engineConfig', isProcessing',
                      isAutoScanning', pendingSelection')
  /\ AutoMemoryEffect(view', shown)

\* no service call has been made yet
NoCall == [ op |-> "none" ]

\* the provider settings of a first start
DefaultEngine ==
  [ provider |-> "gemini", baseUrl |-> << "https://generativelanguage.googleapis.com" >>,
    apiKey |-> "KEY", model |-> "gemini-3-flash-preview", temperature |-> 7,
    autoAnnotationCount |-> 2 ]

\* no book review has been saved
NoReview == [ rating |-> 0, userReview |-> <<>>, aiReview |-> <<>> ]

\* the service has not been called
ServiceIdle ==
  /\ engine = DefaultEngine
  /\ call = NoCall

\* the annotations of the open book that the modal can show: a note of the
\* user ("note") and a thought found by a page scan ("auto")
Notes == { "note", "auto" }

authorOf(n) == IF n = "note" THEN "user" ELSE "ai"

commentOf(n) == IF n = "note" THEN << "n" >> ELSE << "c" >>

\* the chatHistory each annotation is created with
CreatedHistory ==
  [ n \in Notes |->
      IF n = "auto" THEN <<>>
      ELSE << [ role |-> IF n = "note" THEN "user" ELSE "model",
                text |-> commentOf(n) ] >> ]

\* no modal is open, nothing has been discussed or reviewed
ModalsClosed ==
  /\ activeAnnotation = Null
  /\ chatHistory = CreatedHistory
  /\ messages = <<>>
  /\ isTyping = FALSE
  /\ bookReview = NoReview
  /\ isSubmittingReview = FALSE
  /\ replyTasks = <<>>

\* the state after mounting, with the settings `cfg` read from localStorage
\* and nothing else stored
InitApp(cfg) ==
  /\ appState = "library"
  /\ activeBookId = NoBook
  /\ library = {}
  /\ originals = {}
  /\ nextBookId = 1
  /\ customPersonas = <<>>
  /\ nextPersonaId = 1
  /\ persona = DEFAULT_PERSONAS[1]
  /\ engineConfig = cfg
  /\ annotations = <<>>
  /\ isProcessing = FALSE
  /\ isAutoScanning = FALSE
  /\ pendingSelection = Null
  /\ lastScannedPageRef = Null
  /\ lastConsolidatedCountRef = 0
  /\ toast = NoToast
  /\ view = Snapshot(NoBook, {}, <<>>, DEFAULT_PERSONAS[1], <<>>, cfg,
                     FALSE, FALSE, Null)
  /\ scanTimers = <<>>
  /\ scanTasks = <<>>
  /\ memTasks = <<>>
  /\ aiTasks = <<>>
  /\ scannedPages = {}

\* the whole program after mounting: no service call made, no modal open
InitWith(cfg) ==
  /\ InitApp(cfg)
  /\ ServiceIdle
  /\ ModalsClosed

\* first start: no key, consolidation at the largest threshold, no
\* autonomous reading
Init ==
  InitWith([ apiKey |-> FALSE, autoMemoryThreshold |-> MaxThreshold,
             autonomousReading |-> FALSE ])

\* React renders the updates queued by promise continuations and effects
Render ==
  /\ view # CurrentSnapshot
  /\ UNCHANGED <<appState, activeBookId, library, originals, nextBookId,
                 customPersonas, nextPersonaId, persona, engineConfig,
                 annotations, isProcessing, isAutoScanning, pendingSelection,
                 lastScannedPageRef, scanTasks, scanTimers, aiTasks,
                 scannedPages, serviceVars, modalVars>>
  /\ CommitRender(toast)

\* Toast's timer calls onClose
ToastClose ==
  /\ toast # NoToast
  /\ toast' = NoToast
  /\ UNCHANGED <<appState, activeBookId, library, originals, nextBookId,
                 customPersonas, nextPersonaId, persona, engineConfig,
                 annotations, isProcessing, isAutoScanning, pendingSelection,
                 lastScannedPageRef, lastConsolidatedCountRef, view,
                 scanTasks, scanTimers, memTasks, aiTasks, scannedPages,
                 serviceVars, modalVars>>

----------------------------------------------------------------------------
(* Library *)

handleImportBook ==
  /\ appState = "library"
  /\ nextBookId <= MaxBooks
  /\ library' = library \cup {nextBookId}
  /\ activeBookId' = nextBookId
  /\ nextBookId' = nextBookId + 1
  /\ appState' = "reading"
  /\ UNCHANGED <<originals, customPersonas, nextPersonaId, persona,
                 engineConfig, annotations, isProcessing, isAutoScanning,
                 pendingSelection, lastScannedPageRef, scanTasks, scanTimers,
                 aiTasks, scannedPages, serviceVars, modalVars>>
  /\ CommitRender("Imported")

\* onSave of the writing studio: a new work when existingId is NoBook, else
\* the open work synced; firstPara is the first paragraph of the content
handleSaveCreatedBook(existingId, firstPara) ==
  /\ IF existingId = NoBook
     THEN /\ appState = "library"
          /\ nextBookId <= MaxBooks
          /\ library' = library \cup {nextBookId}
          /\ originals' = originals \cup {nextBookId}
          /\ nextBookId' = nextBookId + 1
          /\ activeBookId' = nextBookId
     ELSE /\ appState = "reading"
          /\ view.activeBook
          /\ existingId = view.activeBookId
          /\ existingId \in originals
          /\ activeBookId' = existingId
          /\ UNCHANGED <<library, originals, nextBookId>>
  /\ appState' = "reading"
  /\ IF HasApiKey(view.engineConfig)
     THEN /\ Len(scanTimers) < MaxInFlight
          /\ scanTimers' = Append(scanTimers,
                                  [ bookId |-> activeBookId', content |-> firstPara,
                                    personaId |-> view.persona.id ])
     ELSE UNCHANGED scanTimers
  /\ UNCHANGED <<customPersonas, nextPersonaId, persona, engineConfig,
                 annotations, isProcessing, isAutoScanning, pendingSelection,
                 lastScannedPageRef, scanTasks, aiTasks, scannedPages,
                 serviceVars, modalVars>>
  /\ CommitRender(IF existingId = NoBook THEN "New work created!"
                  ELSE "Work synced successfully")

onSelectBook(id) ==
  /\ appState = "library"
  /\ id \in library
  /\ activeBookId' = id
  /\ appState' = "reading"
  /\ UNCHANGED <<library, originals, nextBookId, customPersonas,
                 nextPersonaId, persona, engineConfig, annotations,
                 isProcessing, isAutoScanning, pendingSelection,
                 lastScannedPageRef, scanTasks, scanTimers, aiTasks,
                 scannedPages, serviceVars, modalVars>>
  /\ CommitRender(toast)

\* the Library button of the reading header
backToLibrary ==
  /\ appState = "reading"
  /\ appState' = "library"
  /\ UNCHANGED <<activeBookId, library, originals, nextBookId, customPersonas,
                 nextPersonaId, persona, engineConfig, annotations,
                 isProcessing, isAutoScanning, pendingSelection,
                 lastScannedPageRef, scanTasks, scanTimers, aiTasks,
                 scannedPages, serviceVars, modalVars>>
  /\ CommitRender(toast)

handleDeleteBook(id) ==
  /\ appState = "library"
  /\ id \in library
  /\ library' = library \ {id}
  /\ originals' = originals \ {id}
  /\ annotations' = SelectSeq(annotations, LAMBDA a : a.bookId # id)
  /\ activeBookId' = IF activeBookId = id THEN NoBook ELSE activeBookId
  /\ appState' = "library"
  /\ UNCHANGED <<nextBookId, customPersonas, nextPersonaId, persona,
                 engineConfig, isProcessing, isAutoScanning, pendingSelection,
                 lastScannedPageRef, scanTasks, scanTimers, aiTasks,
                 scannedPages, serviceVars, modalVars>>
  /\ CommitRender("Book deleted")

----------------------------------------------------------------------------
(* Autonomous scan *)

\* bookAnnotations.map(a => a.textSelection)
existingSelectionsOf(v) == { a.textSelection : a \in Range(v.bookAnnotations) }

\* the early returns without the lastScannedPageRef test
CanScan_NoRef(v, last, content) ==
  /\ v.engineConfig.autonomousReading
  /\ v.activeBookId # NoBook
  /\ ~v.isAutoScanning
  /\ HasApiKey(v.engineConfig)

\* the early returns of handlePageChange
CanScan(v, last, content) ==
  /\ v.engineConfig.autonomousReading
  /\ v.activeBookId # NoBook
  /\ ~v.isAutoScanning
  /\ last # content
  /\ HasApiKey(v.engineConfig)

\* the annotations of a scan response attached to the book and the persona
\* of the state in which the response arrives
newAnnosOf_Current(results, existing, bookId, personaId) ==
  LET kept == SelectSeq(results, LAMBDA r : r \notin existing)
  IN [ i \in 1..Len(kept) |->
         [ bookId |-> activeBookId, textSelection |-> kept[i],
           author |-> "ai", isAutonomous |-> TRUE, personaId |-> persona.id ] ]

\* the annotations handlePageChange builds from a scan response
newAnnosOf(results, existing, bookId, personaId) ==
  LET kept == SelectSeq(results, LAMBDA r : r \notin existing)
  IN [ i \in 1..Len(kept) |->
         [ bookId |-> bookId, textSelection |-> kept[i],
           author |-> "ai", isAutonomous |-> TRUE, personaId |-> personaId ] ]

\* handlePageChange up to its await; the Reader calls it from its page
\* effect, with the handler of the last render
handlePageChange(content) ==
  /\ appState = "reading"
  /\ view.activeBook
  /\ CanScan(view, lastScannedPageRef, content)
  /\ Len(scanTasks) < MaxInFlight
  /\ isAutoScanning' = TRUE
  /\ lastScannedPageRef' = content
  /\ scanTasks' = Append(scanTasks,
                         [ kind |-> "page", content |-> content,
                           bookId |-> view.activeBookId,
                           personaId |-> view.persona.id,
                           existingSelections |-> existingSelectionsOf(view) ])
  /\ scannedPages' = scannedPages \cup {content}
  /\ UNCHANGED <<appState, activeBookId, library, originals, nextBookId,
                 customPersonas, nextPersonaId, persona, engineConfig,
                 annotations, isProcessing, pendingSelection,
                 lastConsolidatedCountRef, toast, view, scanTimers, memTasks,
                 aiTasks, serviceVars, modalVars>>

\* the timeout of handleSaveCreatedBook expires: the initial scan starts
initialScanStarts ==
  /\ scanTimers # <<>>
  /\ Len(scanTasks) < MaxInFlight
  /\ scanTasks' = Append(scanTasks,
                         [ kind |-> "initial", content |-> Head(scanTimers).content,
                           bookId |-> Head(scanTimers).bookId,
                           personaId |-> Head(scanTimers).personaId,
                           existingSelections |-> {} ])
  /\ scanTimers' = Tail(scanTimers)
  /\ scannedPages' = scannedPages \cup {Head(scanTimers).content}
  /\ UNCHANGED <<appState, activeBookId, library, originals, nextBookId,
                 customPersonas, nextPersonaId, persona, engineConfig,
                 annotations, isProcessing, isAutoScanning, pendingSelection,
                 lastScannedPageRef, lastConsolidatedCountRef, toast, view,
                 memTasks, aiTasks, serviceVars, modalVars>>

\* the continuation of a scan: autonomousScan returned `results` (the empty
\* list when the call failed or the response did not parse); a page scan
\* drops the passages in existingSelections and clears isAutoScanning, the
\* initial scan keeps every passage
scanReturns(i, results) ==
  /\ i \in 1..Len(scanTasks)
  /\ LET t == scanTasks[i]
         newAnnos == newAnnosOf(results, t.existingSelections, t.bookId, t.personaId)
     IN /\ Len(annotations) + Len(newAnnos) <= MaxAnnotations
        /\ annotations' = newAnnos \o annotations
        /\ toast' = IF Len(newAnnos) = 0 THEN toast
                    ELSE IF t.kind = "page" THEN "added thoughts"
                    ELSE "found initial thoughts"
        /\ isAutoScanning' = IF t.kind = "page" THEN FALSE ELSE isAutoScanning
  /\ scanTasks' = RemoveAt(scanTasks, i)
  /\ UNCHANGED <<appState, activeBookId, library, originals, nextBookId,
                 customPersonas, nextPersonaId, persona, engineConfig,
                 isProcessing, pendingSelection, lastScannedPageRef,
                 lastConsolidatedCountRef, view, scanTimers, memTasks,
                 aiTasks, scannedPages, serviceVars, modalVars>>

----------------------------------------------------------------------------
(* Explicit AI annotation *)

\* the early return without the isProcessing test
CanAnnotate_NoFlag(v) == v.activeBook

\* the first early return of executeAIAnnotation and of handleUserAnnotate
CanAnnotate(v) == v.activeBook /\ ~v.isProcessing

\* executeAIAnnotation up to its first await, as part of the click that
\* called it; `pending` is what the caller leaves in pendingSelection
executeAIAnnotation(selection, pending) ==
  /\ pendingSelection' = pending
  /\ UNCHANGED <<appState, activeBookId, library, originals, nextBookId,
                 customPersonas, nextPersonaId, persona, engineConfig,
                 annotations, isAutoScanning, lastScannedPageRef, scanTasks,
                 scanTimers, scannedPages, serviceVars, modalVars>>
  /\ IF ~CanAnnotate(view)
     THEN /\ UNCHANGED <<isProcessing, aiTasks>>
          /\ CommitRender(toast)
     ELSE IF ~HasApiKey(view.engineConfig)
     THEN /\ UNCHANGED <<isProcessing, aiTasks>>
          /\ CommitRender("Please set your API Key in Settings first.")
     ELSE /\ Len(aiTasks) < MaxInFlight
          /\ isProcessing' = TRUE
          /\ aiTasks' = Append(aiTasks,
                               [ kind |-> "ai", selection |-> selection,
                                 bookId |-> view.activeBookId ])
          /\ CommitRender(toast)

\* the Reader's annotate buttons
handleAnnotateSelection(selection, intent) ==
  /\ appState = "reading"
  /\ view.activeBook
  /\ view.pendingSelection = Null
  /\ IF intent = "ai"
     THEN executeAIAnnotation(selection, pendingSelection)
     ELSE /\ pendingSelection' = selection
          /\ UNCHANGED <<appState, activeBookId, library, originals,
                         nextBookId, customPersonas, nextPersonaId, persona,
                         engineConfig, annotations, isProcessing,
                         isAutoScanning, lastScannedPageRef, scanTasks,
                         scanTimers, aiTasks, scannedPages, serviceVars,
                         modalVars>>
          /\ CommitRender(toast)

\* the AI button of the action modal
handleAIAnnotate ==
  /\ view.pendingSelection # Null
  /\ executeAIAnnotation(view.pendingSelection, Null)

\* onClose of the action modal
closeActionModal ==
  /\ view.pendingSelection # Null
  /\ pendingSelection' = Null
  /\ UNCHANGED <<appState, activeBookId, library, originals, nextBookId,
                 customPersonas, nextPersonaId, persona, engineConfig,
                 annotations, isProcessing, isAutoScanning,
                 lastScannedPageRef, scanTasks, scanTimers, aiTasks,
                 scannedPages, serviceVars, modalVars>>
  /\ CommitRender(toast)

\* the save button of the action modal: handleUserAnnotate up to its await
handleUserAnnotate ==
  /\ view.pendingSelection # Null
  /\ UNCHANGED <<appState, activeBookId, library, originals, nextBookId,
                 customPersonas, nextPersonaId, persona, engineConfig,
                 annotations, isAutoScanning, lastScannedPageRef, scanTasks,
                 scanTimers, scannedPages, serviceVars, modalVars>>
  /\ IF ~CanAnnotate(view)
     THEN /\ UNCHANGED <<pendingSelection, isProcessing, aiTasks>>
          /\ CommitRender(toast)
     ELSE IF ~HasApiKey(view.engineConfig)
     THEN /\ UNCHANGED <<pendingSelection, isProcessing, aiTasks>>
          /\ CommitRender("Please set your API Key in Settings first.")
     ELSE /\ Len(aiTasks) < MaxInFlight
          /\ pendingSelection' = Null
          /\ isProcessing' = TRUE
          /\ aiTasks' = Append(aiTasks,
                               [ kind |-> "user", selection |-> view.pendingSelection,
                                 bookId |-> view.activeBookId ])
          /\ CommitRender(toast)

\* the continuation without its finally block: the flag is cleared on
\* success only
annotationReturns_NoFinally(i, ok) ==
  /\ i \in 1..Len(aiTasks)
  /\ LET t == aiTasks[i]
     IN IF ok
        THEN /\ Len(annotations) < MaxAnnotations
             /\ annotations' = << [ bookId |-> t.bookId, textSelection |-> t.selection,
                                    author |-> t.kind, isAutonomous |-> FALSE ] >>
                               \o annotations
             /\ toast' = IF t.kind = "ai" THEN "AI Annotation created" ELSE "Note saved"
        ELSE /\ UNCHANGED annotations
             /\ toast' = IF t.kind = "ai" THEN "AI Error" ELSE "Error saving note"
  /\ isProcessing' = IF ok THEN FALSE ELSE isProcessing
  /\ aiTasks' = RemoveAt(aiTasks, i)
  /\ UNCHANGED <<appState, activeBookId, library, originals, nextBookId,
                 customPersonas, nextPersonaId, persona, engineConfig,
                 isAutoScanning, pendingSelection, lastScannedPageRef,
                 lastConsolidatedCountRef, view, scanTasks, scanTimers,
                 memTasks, scannedPages, serviceVars, modalVars>>

\* executeAIAnnotation / handleUserAnnotate after their awaits: the provider
\* calls returned (ok), or one of them threw
annotationReturns(i, ok) ==
  /\ i \in 1..Len(aiTasks)
  /\ LET t == aiTasks[i]
     IN IF ok
        THEN /\ Len(annotations) < MaxAnnotations
             /\ annotations' = << [ bookId |-> t.bookId, textSelection |-> t.selection,
                                    author |-> t.kind, isAutonomous |-> FALSE ] >>
                               \o annotations
             /\ toast' = IF t.kind = "ai" THEN "AI Annotation created" ELSE "Note saved"
        ELSE /\ UNCHANGED annotations
             /\ toast' = IF t.kind = "ai" THEN "AI Error" ELSE "Error saving note"
  /\ isProcessing' = FALSE
  /\ aiTasks' = RemoveAt(aiTasks, i)
  /\ UNCHANGED <<appState, activeBookId, library, originals, nextBookId,
                 customPersonas, nextPersonaId, persona, engineConfig,
                 isAutoScanning, pendingSelection, lastScannedPageRef,
                 lastConsolidatedCountRef, view, scanTasks, scanTimers,
                 memTasks, scannedPages, serviceVars, modalVars>>

----------------------------------------------------------------------------
(* Personas and settings *)

\* the persona buttons of the Sidebar
onChangePersona(p) ==
  /\ appState = "reading"
  /\ p \in Range(allPersonas(view.customPersonas))
  /\ persona' = p
  /\ UNCHANGED <<appState, activeBookId, library, originals, nextBookId,
                 customPersonas, nextPersonaId, engineConfig, annotations,
                 isProcessing, isAutoScanning, pendingSelection,
                 lastScannedPageRef, scanTasks, scanTimers, aiTasks,
                 scannedPages, serviceVars, modalVars>>
  /\ CommitRender(toast)

\* onSave of the persona editor, for the persona object `p`
onSavePersona(p) ==
  /\ customPersonas' =
       IF \E cp \in Range(view.customPersonas) : cp.id = p.id
       THEN ReplaceById(customPersonas, p)
       ELSE Append(customPersonas, p)
  /\ persona' = p
  /\ UNCHANGED <<appState, activeBookId, library, originals, nextBookId,
                 engineConfig, annotations, isProcessing, isAutoScanning,
                 pendingSelection, lastScannedPageRef, scanTasks, scanTimers,
                 aiTasks, scannedPages, serviceVars, modalVars>>
  /\ CommitRender(toast)

\* EDIT in the Sidebar opens the editor on the current persona; the user
\* may retype its memory
editPersona(memory) ==
  /\ appState = "reading"
  /\ memory \in {view.persona.longTermMemory, UserMemory}
  /\ UNCHANGED nextPersonaId
  /\ onSavePersona([ id |-> view.persona.id, longTermMemory |-> memory ])

\* + in the Sidebar opens the editor on a new persona, id Date.now()
createPersona(memory) ==
  /\ appState = "reading"
  /\ nextPersonaId <= MaxCustomPersonas
  /\ memory \in {"", UserMemory}
  /\ nextPersonaId' = nextPersonaId + 1
  /\ onSavePersona([ id |-> ToString(nextPersonaId), longTermMemory |-> memory ])

\* onDelete of the persona editor, opened on the current persona
onDeletePersona ==
  /\ appState = "reading"
  /\ customPersonas' = SelectSeq(customPersonas, LAMBDA cp : cp.id # view.persona.id)
  /\ persona' = DEFAULT_PERSONAS[1]
  /\ UNCHANGED <<appState, activeBookId, library, originals, nextBookId,
                 nextPersonaId, engineConfig, annotations, isProcessing,
                 isAutoScanning, pendingSelection, lastScannedPageRef,
                 scanTasks, scanTimers, aiTasks, scannedPages, serviceVars,
                 modalVars>>
  /\ CommitRender(toast)

Configs ==
  [ apiKey : BOOLEAN, autoMemoryThreshold : 0..MaxThreshold,
    autonomousReading : BOOLEAN ]

\* onSave of the settings modal
onSaveSettings(newConfig) ==
  /\ appState = "reading"
  /\ newConfig \in Configs
  /\ newConfig # engineConfig
  /\ engineConfig' = newConfig
  /\ UNCHANGED <<appState, activeBookId, library, originals, nextBookId,
                 customPersonas, nextPersonaId, persona, annotations,
                 isProcessing, isAutoScanning, pendingSelection,
                 lastScannedPageRef, scanTasks, scanTimers, aiTasks,
                 scannedPages, serviceVars, modalVars>>
  /\ CommitRender(IF HasApiKey(newConfig) THEN "Settings saved!"
                  ELSE "Warning: API Key is still missing.")

----------------------------------------------------------------------------
(* Memory consolidation *)

\* runAutoMemory after its await: consolidateMemory returned newMemory
memoryReturns(i, newMemory) ==
  /\ i \in 1..Len(memTasks)
  /\ newMemory \in ProviderMemories
  /\ LET updatedPersona == [ memTasks[i].persona EXCEPT !.longTermMemory = newMemory ]
     IN /\ persona' = updatedPersona
        /\ customPersonas' = ReplaceById(customPersonas, updatedPersona)
  /\ toast' = "Long-term memory updated."
  /\ memTasks' = RemoveAt(memTasks, i)
  /\ UNCHANGED <<appState, activeBookId, library, originals, nextBookId,
                 nextPersonaId, engineConfig, annotations, isProcessing,
                 isAutoScanning, pendingSelection, lastScannedPageRef,
                 lastConsolidatedCountRef, view, scanTasks, scanTimers,
                 aiTasks, scannedPages, serviceVars, modalVars>>

\* runAutoMemory after its await: consolidateMemory threw
memoryFails(i) ==
  /\ i \in 1..Len(memTasks)
  /\ memTasks' = RemoveAt(memTasks, i)
  /\ UNCHANGED <<appState, activeBookId, library, originals, nextBookId,
                 customPersonas, nextPersonaId, persona, engineConfig,
                 annotations, isProcessing, isAutoScanning, pendingSelection,
                 lastScannedPageRef, lastConsolidatedCountRef, toast, view,
                 scanTasks, scanTimers, aiTasks, scannedPages, serviceVars,
                 modalVars>>

----------------------------------------------------------------------------

LibraryStep ==
  \/ handleImportBook
  \/ \E id \in 1..MaxBooks : onSelectBook(id)
  \/ backToLibrary
  \/ \E id \in 1..MaxBooks : handleDeleteBook(id)

PersonaStep ==
  \/ \E p \in Range(allPersonas(view.customPersonas)) : onChangePersona(p)
  \/ editPersona(view.persona.longTermMemory)
  \/ createPersona("")
  \/ onDeletePersona

(* The memory scheduler: annotations grow by explicit requests on one      *)
(* passage, autonomous reading stays off.                                  *)
NextMemory ==
  \/ Render
  \/ ToastClose
  \/ LibraryStep
  \/ \E newConfig \in { c \in Configs : ~c.autonomousReading } : onSaveSettings(newConfig)
  \/ handleAnnotateSelection("X", "ai")
  \/ \E i \in 1..MaxInFlight, ok \in BOOLEAN : annotationReturns(i, ok)
  \/ \E i \in 1..MaxInFlight : memoryReturns(i, "m1")
  \/ \E i \in 1..MaxInFlight : memoryFails(i)

SpecMemory == Init /\ [][NextMemory]_vars

(* The persona registry under consolidation: a key is stored and every     *)
(* annotation is a threshold crossing; the settings are left alone.        *)
InitPersona ==
  InitWith([ apiKey |-> TRUE, autoMemoryThreshold |-> 1,
             autonomousReading |-> FALSE ])

NextPersona ==
  \/ Render
  \/ ToastClose
  \/ handleImportBook
  \/ handleAnnotateSelection("X", "ai")
  \/ \E i \in 1..MaxInFlight, ok \in BOOLEAN : annotationReturns(i, ok)
  \/ PersonaStep
  \/ \E i \in 1..MaxInFlight : memoryReturns(i, "m1")
  \/ \E i \in 1..MaxInFlight : memoryFails(i)

SpecPersona == InitPersona /\ [][NextPersona]_vars

(* Autonomous reading: a key is stored, autonomous reading is on and the   *)
(* memory scheduler is off (threshold 0); books are imported or written,   *)
(* and the user also annotates one passage explicitly.                     *)
InitScan ==
  InitWith([ apiKey |-> TRUE, autoMemoryThreshold |-> 0,
             autonomousReading |-> TRUE ])

NextScan ==
  \/ Render
  \/ ToastClose
  \/ LibraryStep
  \/ \E existingId \in 0..MaxBooks, firstPara \in FirstParagraphs :
       handleSaveCreatedBook(existingId, firstPara)
  \/ \E content \in Pages : handlePageChange(content)
  \/ initialScanStarts
  \/ \E i \in 1..MaxInFlight, results \in ScanResponses : scanReturns(i, results)
  \/ handleAnnotateSelection("X", "ai")
  \/ \E i \in 1..MaxInFlight : annotationReturns(i, TRUE)

SpecScan == InitScan /\ [][NextScan]_vars

(* Page deliveries alone: the same start, every book is imported, the      *)
(* provider finds one passage or none, and the user makes no explicit      *)
(* request.                                                                *)
NextPages ==
  \/ Render
  \/ ToastClose
  \/ LibraryStep
  \/ \E content \in Pages : handlePageChange(content)
  \/ \E i \in 1..MaxInFlight, results \in { <<>>, <<"X">> } : scanReturns(i, results)

SpecPages == InitScan /\ [][NextPages]_vars

(* Explicit requests: a key is stored, the scheduler and autonomous        *)
(* reading are off; the settings modal can remove and restore the key.     *)
InitAnnotate ==
  InitWith([ apiKey |-> TRUE, autoMemoryThreshold |-> 0,
             autonomousReading |-> FALSE ])

NextAnnotate ==
  \/ Render
  \/ ToastClose
  \/ LibraryStep
  \/ \E newConfig \in { c \in Configs : c.autoMemoryThreshold = 0 /\ ~c.autonomousReading } :
        onSaveSettings(newConfig)
  \/ \E selection \in {"X", "Y"}, intent \in {"ai", "user"} :
        handleAnnotateSelection(selection, intent)
  \/ handleAIAnnotate
  \/ handleUserAnnotate
  \/ closeActionModal
  \/ \E i \in 1..MaxInFlight, ok \in BOOLEAN : annotationReturns(i, ok)

SpecAnnotate == InitAnnotate /\ [][NextAnnotate]_vars

----------------------------------------------------------------------------
(* Memory consolidation scheduler: properties *)

\* this step started a consolidation
Fired == Len(memTasks') = Len(memTasks) + 1

\* this step is a render that observed new values
Observed == view' # view

countOf(v) == Len(v.bookAnnotations)
thresholdOf(v) == v.engineConfig.autoMemoryThreshold

\* the four conditions of the scheduler's transition idle -> firing
FourConditions(v, last) ==
  /\ thresholdOf(v) > 0
  /\ countOf(v) > 0
  /\ countOf(v) % thresholdOf(v) = 0
  /\ countOf(v) # last

\* C1 as stated: an observation starts a consolidation exactly when the
\* threshold is positive, the active book's annotation count is positive and
\* a multiple of the threshold, and the count differs from
\* lastConsolidatedCount.
C1_FiresExactlyOnFourConditions ==
  [][ Observed => (Fired <=> FourConditions(view', lastConsolidatedCountRef)) ]_vars

\* C1 amended: a step starts a consolidation exactly when it is an
\* observation at which the four conditions hold and an API key is
\* configured.
C1_FiresExactlyWithApiKey ==
  [][ Fired <=> /\ Observed
                /\ FourConditions(view', lastConsolidatedCountRef)
                /\ HasApiKey(view'.engineConfig) ]_vars

\* a consolidation has been started at the count now observed
C1_Witness ==
  /\ memTasks # <<>>
  /\ countOf(view) > 0
  /\ lastConsolidatedCountRef = countOf(view)
  /\ memTasks[Len(memTasks)].count = countOf(view)

\* the threshold is the same positive T before and after the step
FixedThreshold == thresholdOf(view) > 0 /\ thresholdOf(view') = thresholdOf(view)

\* the observed count changed to a positive multiple of T that is not the
\* count of the last consolidation
ArrivesAtNewMultiple ==
  /\ countOf(view') # countOf(view)
  /\ countOf(view') > 0
  /\ countOf(view') % thresholdOf(view') = 0
  /\ countOf(view') # lastConsolidatedCountRef

\* C2 as stated: with a fixed threshold T > 0, each arrival at a new positive
\* multiple of T starts exactly one consolidation and each re-observation of
\* an unchanged count starts none.
C2_OnePerArrival ==
  [][ FixedThreshold =>
        /\ ArrivesAtNewMultiple => Fired
        /\ (Observed /\ countOf(view') = countOf(view)) => ~Fired ]_vars

\* C2 amended: the same, while an API key is configured.
C2_OnePerArrivalWithApiKey ==
  [][ (FixedThreshold /\ HasApiKey(view.engineConfig) /\ HasApiKey(view'.engineConfig)) =>
        /\ ArrivesAtNewMultiple => Fired
        /\ (Observed /\ countOf(view') = countOf(view)) => ~Fired ]_vars

\* with T = 1 a consolidation fired at count 1 and another at count 2
C2_Witness ==
  /\ thresholdOf(view) = 1
  /\ countOf(view) = 2
  /\ lastConsolidatedCountRef = 2
  /\ Len(memTasks) = 2
  /\ memTasks[1].count = 1
  /\ memTasks[2].count = 2

\* this step is the catch branch of runAutoMemory for request i
FailedStep(i) ==
  /\ i \in 1..Len(memTasks)
  /\ memTasks' = RemoveAt(memTasks, i)
  /\ toast' # "Long-term memory updated."

\* C3 as stated: when a consolidation fails, lastConsolidatedCount is not
\* the count of the failed consolidation, so the next observation of that
\* count fires again.
C3_FailureLeavesCountRetriable ==
  [][ \A i \in 1..MaxInFlight :
        FailedStep(i) => lastConsolidatedCountRef' # memTasks[i].count ]_vars

\* C4 as stated: at most one consolidation is in flight at any time.
C4_SingleConsolidationInFlight == Len(memTasks) <= 1

----------------------------------------------------------------------------
(* Consolidation result: properties *)

\* this step is the success branch of runAutoMemory for request i
SucceededStep(i) ==
  /\ i \in 1..Len(memTasks)
  /\ memTasks' = RemoveAt(memTasks, i)
  /\ toast # "Long-term memory updated."
  /\ toast' = "Long-term memory updated."

\* C5 as stated: when a consolidation succeeds, every registry entry of the
\* consolidated persona, built-in or custom, carries the new long-term
\* memory, and lastConsolidatedCount is the count observed when it fired.
C5_RegistryAndCountUpdated ==
  [][ \A i \in 1..MaxInFlight :
        SucceededStep(i) =>
          /\ \E m \in ProviderMemories :
               \A q \in Range(allPersonas(customPersonas')) :
                 q.id = memTasks[i].persona.id => q.longTermMemory = m
          /\ lastConsolidatedCountRef' = memTasks[i].count ]_vars

----------------------------------------------------------------------------
(* Autonomous scan: properties *)

\* C6 as stated: at most one autonomousScan call is in flight at any time.
C6_SingleScanInFlight == Len(scanTasks) <= 1

\* this step passed a page to autonomousScan
ScanStarted == Len(scanTasks') = Len(scanTasks) + 1

\* C7 as stated: a page content that has been scanned is never scanned
\* again.
C7_EachContentScannedOnce ==
  [][ ScanStarted => scanTasks'[Len(scanTasks')].content \notin scannedPages ]_vars

\* C7 amended: a page change never starts a scan for the content that was
\* scanned last by a page change.
C7_LastContentNotRescanned ==
  [][ (ScanStarted /\ scanTasks'[Len(scanTasks')].kind = "page")
        => scanTasks'[Len(scanTasks')].content # lastScannedPageRef ]_vars

\* the reader is on a book whose page A was scanned last, nothing is in
\* flight and the render is current: only lastScannedPageRef holds back a
\* second scan of A
C7_Witness ==
  /\ appState = "reading"
  /\ view = CurrentSnapshot
  /\ view.activeBook
  /\ scanTasks = <<>>
  /\ ~view.isAutoScanning
  /\ lastScannedPageRef = "A"
  /\ "A" \in scannedPages

\* anchors of the book's annotations in the current state
anchorsOf(bookId) ==
  { a.textSelection : a \in Range(bookAnnotationsOf(annotations, bookId)) }

\* this step is the continuation of page scan request i
ScanReturnedStep(i) ==
  /\ i \in 1..Len(scanTasks)
  /\ scanTasks[i].kind = "page"
  /\ scanTasks' = RemoveAt(scanTasks, i)

\* C8 as stated: the annotations a page scan adds are exactly its results
\* whose textSelection is not an anchor of the book when the results are
\* accepted.
C8_DedupAgainstCurrentAnchors ==
  [][ \A i \in 1..MaxInFlight :
        ScanReturnedStep(i) =>
          \E results \in ScanResponses :
            annotations' = newAnnosOf(results, anchorsOf(scanTasks[i].bookId),
                                      scanTasks[i].bookId, scanTasks[i].personaId)
                           \o annotations ]_vars

\* C9 as stated: no stored annotation belongs to a book that is not in the
\* library.
C9_NoOrphanAnnotations ==
  \A a \in Range(annotations) : a.bookId \in library

----------------------------------------------------------------------------
(* Explicit requests: properties *)

\* C10: explicit requests are serialized by isProcessing: at most one is in
\* flight, and while one is in flight the flag is set in the state and in
\* the render the handlers close over.
C10_ExplicitRequestsSerialized ==
  /\ Len(aiTasks) <= 1
  /\ aiTasks # <<>> => (isProcessing /\ view.isProcessing)

\* a request for a passage is in flight and the action modal is open on the
\* same passage again
C10_Witness ==
  /\ Len(aiTasks) = 1
  /\ aiTasks[1].kind = "ai"
  /\ view.pendingSelection = aiTasks[1].selection

----------------------------------------------------------------------------
(***************************************************************************)
(* The provider service (src/services/geminiService.ts).                   *)
(*                                                                         *)
(* A text or a URL is the sequence of its lexical pieces ("/", "v1",       *)
(* "beta", a host, a word, a blank), so that trim, endsWith, includes,     *)
(* slice and join are computed on it.  Every piece that precedes a         *)
(* version suffix in an input is one character long, as slice counts       *)
(* characters.  Temperatures are in tenths.                                *)
(***************************************************************************)

(* Bounds *)
MaxCount == 6            \* largest stored autoAnnotationCount
MaxPassages == 1         \* most passages in a scan reply
MaxTurns == 2            \* longest stored chat thread sent to the provider

(* Program constants *)
SCAN_MIN == 1
SCAN_MAX == 5
SCAN_DEFAULT == 2
TOPIC_TEMPERATURE == 3
MEMORY_TEMPERATURE == 5
COMMENT_LIMIT == 100
GEMINI_VERSION == << "v1", "beta" >>
GEMINI_DEFAULT_URL == << "https://generativelanguage.googleapis.com" >>
OPENAI_DEFAULT_URL == << "https://api.siliconflow.cn" >>
GEMINI_DEFAULT_MODEL == "gemini-3-flash-preview"
GEMINI_PRO_MODEL == "gemini-3-pro-preview"
OPENAI_DEFAULT_MODEL == "deepseek-ai/DeepSeek-V3"
JSON_REQUIREMENT == << "\n", "IMPORTANT: Output strictly in ", "JSON", " format." >>
ARCHIVIST == << "You are a memory archivist for an AI persona." >>
THOUGHT_ONLY_CONSTRAINT == << "CRITICAL CONSTRAINTS" >>

(* Inputs *)
UserHost == "https://proxy.example"
UserModel == "user-model"
NoOverride == [ temperature |-> -1, json |-> FALSE ]
JsonOverride == [ temperature |-> -1, json |-> TRUE ]

\* base URLs a user can have stored; <<>> is the empty field
BaseUrls ==
  { <<>>,
    << UserHost >>,
    << UserHost, "/" >>,
    << " ", UserHost, "/", " " >>,
    << UserHost, "/", "v1" >>,
    << UserHost, "/", "v1", "/" >>,
    << UserHost, "/", "v1", "/", "chat", "/", "completions" >>,
    << UserHost, "/", "v1", "beta" >>,
    << UserHost, "/", "v1", "beta", "/" >>,
    << UserHost, "/", "v1", "beta", "/", "models", "/", GEMINI_DEFAULT_MODEL,
       ":", "generateContent" >> }

ConfiguredTemperatures == {3, 7}

\* stored configurations: every provider, model field and temperature,
\* with every base URL beside the default count and every count beside the
\* empty base URL
Engines ==
  { e \in [ provider : {"gemini", "openai"}, baseUrl : BaseUrls,
            apiKey : {"KEY"}, model : {"", UserModel},
            temperature : ConfiguredTemperatures,
            autoAnnotationCount : (-1)..MaxCount ] :
      e.baseUrl = <<>> \/ e.autoAnnotationCount = SCAN_DEFAULT }

\* texts a provider can return: nothing, a blank, a short text, a text
\* with blanks around it
\* a provider text one character longer than the limit
LongText == [ k \in 1..(COMMENT_LIMIT + 1) |-> "x" ]

\* provider texts, one character a piece
ProviderTexts == { <<>>, << " " >>, << "t" >>, << " ", "t", " " >>, LongText }

\* what a provider call can do: fail, or return a text
Responses == [ ok : BOOLEAN, text : ProviderTexts ]

\* persona instructions as the user can have written them
PersonaInstructions == { << "voice" >>, << "voice", "JSON" >> }

ServicePersonas ==
  [ systemInstruction : PersonaInstructions, longTermMemory : { <<>>, << "m" >> } ]

\* what the user types in the chat modal
UserMessage == << "q" >>

\* stored chat turns
ChatTurns == [ role : {"user", "model"}, text : { << "a" >> } ]

(* String functions *)
EndsWith(s, suffix) ==
  /\ Len(s) >= Len(suffix)
  /\ SubSeq(s, Len(s) - Len(suffix) + 1, Len(s)) = suffix

Includes(s, part) ==
  \E i \in 1..(Len(s) - Len(part) + 1) : SubSeq(s, i, i + Len(part) - 1) = part

\* s.slice(0, -n)
SliceOff(s, n) == SubSeq(s, 1, Len(s) - n)

\* s.substring(0, n)
Substring(s, n) == SubSeq(s, 1, IF Len(s) < n THEN Len(s) ELSE n)

RECURSIVE TrimStart(_)
TrimStart(s) ==
  IF s # <<>> /\ Head(s) = " " THEN TrimStart(Tail(s)) ELSE s

RECURSIVE TrimEnd(_)
TrimEnd(s) ==
  IF s # <<>> /\ s[Len(s)] = " " THEN TrimEnd(SliceOff(s, 1)) ELSE s

Trim(s) == TrimEnd(TrimStart(s))

\* parts.map(p => p.text).join('\n')
RECURSIVE JoinLines(_)
JoinLines(parts) ==
  IF parts = <<>> THEN <<>>
  ELSE IF Len(parts) = 1 THEN parts[1]
  ELSE parts[1] \o << "\n" >> \o JoinLines(Tail(parts))

\* a || b on texts
OrElse(a, b) == IF a = <<>> THEN b ELSE a

(* Endpoints *)
getGeminiEndpoint(config, method) ==
  LET given == Trim(OrElse(config.baseUrl, GEMINI_DEFAULT_URL))
      noSlash == IF EndsWith(given, << "/" >>) THEN SliceOff(given, 1) ELSE given
      baseUrl == IF EndsWith(noSlash, GEMINI_VERSION)
                 THEN SliceOff(noSlash, Len(GEMINI_VERSION) + 1)
                 ELSE noSlash
      model == IF config.model = "" THEN GEMINI_DEFAULT_MODEL ELSE config.model
  IN baseUrl \o << "/" >> \o GEMINI_VERSION
       \o << "/", "models", "/", model, ":", method, "?key=", config.apiKey >>

getOpenAIEndpoint_AlwaysVersion(config) ==
  LET given == Trim(OrElse(config.baseUrl, OPENAI_DEFAULT_URL))
      baseUrl == IF EndsWith(given, << "/" >>) THEN SliceOff(given, 1) ELSE given
  IN IF Includes(baseUrl, << "/", "chat", "/", "completions" >>)
     THEN baseUrl
     ELSE baseUrl \o << "/", "v1", "/", "chat", "/", "completions" >>

getOpenAIEndpoint(config) ==
  LET given == Trim(OrElse(config.baseUrl, OPENAI_DEFAULT_URL))
      baseUrl == IF EndsWith(given, << "/" >>) THEN SliceOff(given, 1) ELSE given
      versioned == IF EndsWith(baseUrl, << "/", "v1" >>)
                   THEN baseUrl ELSE baseUrl \o << "/", "v1" >>
  IN IF Includes(baseUrl, << "/", "chat", "/", "completions" >>)
     THEN baseUrl
     ELSE versioned \o << "/", "chat", "/", "completions" >>

(* Adapters *)
mapGeminiToOpenAI_KeepRoles(contents, systemInstruction) ==
  (IF systemInstruction # <<>>
   THEN << [ role |-> "system", content |-> systemInstruction ] >>
   ELSE <<>>)
  \o [ i \in 1..Len(contents) |->
         [ role |-> contents[i].role,
           content |-> JoinLines(contents[i].parts) ] ]

mapGeminiToOpenAI(contents, systemInstruction) ==
  (IF systemInstruction # <<>>
   THEN << [ role |-> "system", content |-> systemInstruction ] >>
   ELSE <<>>)
  \o [ i \in 1..Len(contents) |->
         [ role |-> IF contents[i].role = "model" THEN "assistant" ELSE "user",
           content |-> JoinLines(contents[i].parts) ] ]

\* the request callGemini sends
callGemini(config, contents, systemInstruction, override) ==
  [ family |-> "gemini",
    url |-> getGeminiEndpoint(config, "generateContent"),
    model |-> IF config.model = "" THEN GEMINI_DEFAULT_MODEL ELSE config.model,
    temperature |-> IF override.temperature # NoOverride.temperature
                    THEN override.temperature ELSE config.temperature,
    json |-> override.json,
    systemInstruction |-> systemInstruction,
    contents |-> contents ]

\* the messages callOpenAI sends: in JSON mode the first message is made to
\* mention JSON
jsonMessages(msgs) ==
  IF Includes(msgs[1].content, << "JSON" >>)
  THEN msgs
  ELSE [ msgs EXCEPT ![1].content = @ \o JSON_REQUIREMENT ]

\* the request callOpenAI sends
callOpenAI(config, contents, systemInstruction, override) ==
  LET msgs == mapGeminiToOpenAI(contents, systemInstruction)
  IN [ family |-> "openai",
       url |-> getOpenAIEndpoint(config),
       model |-> IF config.model = "" THEN OPENAI_DEFAULT_MODEL ELSE config.model,
       temperature |-> config.temperature,
       messages |-> IF override.json THEN jsonMessages(msgs) ELSE msgs ]

callAI(contents, config, systemInstruction, override) ==
  IF config.provider = "openai"
  THEN callOpenAI(config, contents, systemInstruction, override)
  ELSE callGemini(config, contents, systemInstruction, override)

\* a user turn with one part
userTurn(text) == [ role |-> "user", parts |-> << text >> ]

buildSystemPrompt(p) ==
  p.systemInstruction
    \o (IF p.longTermMemory # <<>>
        THEN << "\n\n[LONG-TERM MEMORY & SHARED HISTORY]" >> \o p.longTermMemory
        ELSE <<>>)
    \o << "\n" >> \o THOUGHT_ONLY_CONSTRAINT

(* JSON replies *)
\* the code-fence markers, three backquotes with and without "json"
FENCES == { "[fence]json", "[fence]" }

cleanJSON(text) == Trim(SelectSeq(text, LAMBDA t : t \notin FENCES))

\* JSON.parse on the replies of the model: an array of passages, one
\* passage object, or a syntax error
parseJSON(text) ==
  IF /\ Len(text) >= 2
     /\ text[1] = "[" /\ text[Len(text)] = "]"
     /\ \A i \in 2..(Len(text) - 1) : text[i] \in Selections
  THEN [ ok |-> TRUE, isArray |-> TRUE, value |-> SubSeq(text, 2, Len(text) - 1) ]
  ELSE IF Len(text) = 3 /\ text[1] = "{" /\ text[3] = "}" /\ text[2] \in Selections
  THEN [ ok |-> TRUE, isArray |-> FALSE, value |-> << text[2] >> ]
  ELSE [ ok |-> FALSE, isArray |-> FALSE, value |-> <<>> ]

\* the JSON text of a list of passages
jsonArray(list) == << "[" >> \o list \o << "]" >>

\* replies to a scan request: arrays bare, fenced and padded, an object,
\* and texts that are not JSON
ScanTexts ==
  UNION { { jsonArray(l),
            << "[fence]json" >> \o jsonArray(l) \o << "[fence]" >>,
            << " " >> \o jsonArray(l) \o << " " >> } :
          l \in SeqsUpTo({"X"}, MaxPassages) }
  \cup { << "{", "X", "}" >>, <<>>, << "Sorry" >>, << "[", "X" >>,
         << "[fence]json", "Sorry", "[fence]" >> }

ScanReplies == [ ok : BOOLEAN, text : ScanTexts ]

\* the replies after which autonomousScan has nothing to parse
FailedScanReplies ==
  { r \in ScanReplies : ~r.ok \/ ~parseJSON(cleanJSON(r.text)).ok }

(* Exported functions: the value each returns for a provider reply *)
scanCount_NoCap(config) ==
  LET stored == IF config.autoAnnotationCount = 0
                THEN SCAN_DEFAULT ELSE config.autoAnnotationCount
  IN IF stored > SCAN_MIN THEN stored ELSE SCAN_MIN

\* Math.max(1, Math.min(5, engine.autoAnnotationCount || 2))
scanCount(config) ==
  LET stored == IF config.autoAnnotationCount = 0
                THEN SCAN_DEFAULT ELSE config.autoAnnotationCount
      capped == IF stored < SCAN_MAX THEN stored ELSE SCAN_MAX
  IN IF capped > SCAN_MIN THEN capped ELSE SCAN_MIN

\* autonomousScan handing on what is left of a reply it cannot parse
autonomousScanValue_NoCatch(reply) ==
  LET parsed == parseJSON(cleanJSON(reply.text))
  IN IF ~reply.ok THEN <<>>
     ELSE IF ~parsed.ok THEN cleanJSON(reply.text) ELSE parsed.value

\* autonomousScan: try { parse } catch { return [] }
autonomousScanValue(reply) ==
  LET parsed == parseJSON(cleanJSON(reply.text))
  IN IF ~reply.ok \/ ~parsed.ok THEN <<>> ELSE parsed.value

\* the placeholder for an empty text, without the cut
shortOrDots_NoLimit(text) == OrElse(text, << "..." >>)

shortOrDots(text) == OrElse(Substring(text, COMMENT_LIMIT), << "..." >>)

summarizeTopicValue(text) == OrElse(Trim(text), << "Thought" >>)

longReviewValue(text) == OrElse(text, << "A deep resonance." >>)

reviewReplyValue(text) == OrElse(text, << "I see." >>)

consolidateMemoryValue(text) == Trim(text)

memoryConfigOf(config) ==
  [ config EXCEPT !.model = IF @ = "" THEN GEMINI_PRO_MODEL ELSE @,
                  !.temperature = MEMORY_TEMPERATURE ]

longFormConfigOf(config) ==
  [ config EXCEPT !.model = IF @ = "" THEN GEMINI_PRO_MODEL ELSE @ ]

\* the text of the turn chatWithPersona writes for the new message
chatPrompt(message) == << "User: " >> \o message \o << ". Respond as persona" >>

\* the contents chatWithPersona would send with the new turn put first
chatContents_NewestFirst(message, history) ==
  << userTurn(chatPrompt(message)) >>
  \o [ i \in 1..Len(history) |->
         [ role |-> IF history[i].role = "user" THEN "user" ELSE "model",
           parts |-> << history[i].text >> ] ]

\* the contents chatWithPersona sends
chatContents(message, history) ==
  [ i \in 1..Len(history) |->
      [ role |-> IF history[i].role = "user" THEN "user" ELSE "model",
        parts |-> << history[i].text >> ] ]
  \o << userTurn(chatPrompt(message)) >>

(* Service calls *)
\* a provider reply that is not read
NoReply == [ ok |-> TRUE, text |-> <<>> ]

\* one call of an exported function: what it passes to callAI, the request
\* that is sent, the reply, the N of its prompt (0 when the prompt has
\* none), whether the function throws, and the value it returns
Called(op, contents, config, systemInstruction, override, reply, count, threw, value) ==
  /\ call' = [ op |-> op, contents |-> contents,
               systemInstruction |-> systemInstruction, json |-> override.json,
               request |-> callAI(contents, config, systemInstruction, override),
               reply |-> reply, count |-> count, threw |-> threw,
               value |-> IF threw THEN <<>> ELSE value ]
  /\ UNCHANGED <<engine, appVars, modalVars>>

generateAIAnnotation(p, reply) ==
  Called("generateAIAnnotation", << userTurn(<< "Passage" >>) >>, engine,
         buildSystemPrompt(p), NoOverride, reply,
         0, ~reply.ok, shortOrDots(reply.text))

summarizeTopic(reply) ==
  Called("summarizeTopic", << userTurn(<< "Topic for" >>) >>, engine, <<>>,
         [ temperature |-> TOPIC_TEMPERATURE, json |-> FALSE ], reply,
         0, ~reply.ok, summarizeTopicValue(reply.text))

generateAIResponseToUserNote(p, reply) ==
  Called("generateAIResponseToUserNote", << userTurn(<< "Note of the user" >>) >>,
         engine, buildSystemPrompt(p), NoOverride, reply,
         0, ~reply.ok, shortOrDots(reply.text))

chatWithPersona(message, history, p, reply) ==
  Called("chatWithPersona", chatContents(message, history), engine,
         buildSystemPrompt(p), NoOverride, reply,
         0, ~reply.ok, shortOrDots(reply.text))

generateLongFormAIReview(p, reply) ==
  Called("generateLongFormAIReview", << userTurn(<< "Write a review" >>) >>,
         longFormConfigOf(engine), buildSystemPrompt(p), NoOverride, reply,
         0, ~reply.ok, longReviewValue(reply.text))

respondToUserBookReview(p, reply) ==
  Called("respondToUserBookReview", << userTurn(<< "User rated" >>) >>, engine,
         buildSystemPrompt(p), NoOverride, reply,
         0, ~reply.ok, reviewReplyValue(reply.text))

consolidateMemory(reply) ==
  Called("consolidateMemory", << userTurn(<< "Consolidate Memory" >>) >>,
         memoryConfigOf(engine), ARCHIVIST, NoOverride, reply,
         0, ~reply.ok, consolidateMemoryValue(reply.text))

autonomousScan(p, reply) ==
  Called("autonomousScan",
         << userTurn(<< "Find between 1 and N", "JSON", " Output" >>) >>, engine,
         buildSystemPrompt(p), JsonOverride, reply,
         scanCount(engine), FALSE, autonomousScanValue(reply))

\* generateSoulReport, up to its request; the report is not modelled
generateSoulReport ==
  Called("generateSoulReport",
         << userTurn(<< "Output a poetic ", "JSON", " report" >>) >>, engine,
         <<>>, JsonOverride, NoReply, 0, FALSE, << "report" >>)

\* the service called with every stored configuration
InitService ==
  /\ InitApp([ apiKey |-> TRUE, autoMemoryThreshold |-> 0,
               autonomousReading |-> FALSE ])
  /\ engine \in Engines
  /\ call = NoCall
  /\ ModalsClosed

\* the exported functions keep no state between calls: a behaviour is one
\* call, made with the stored configuration
NextService ==
  /\ call = NoCall
  /\ \/ \E p \in ServicePersonas, reply \in Responses :
          \/ generateAIAnnotation(p, reply)
          \/ generateAIResponseToUserNote(p, reply)
          \/ generateLongFormAIReview(p, reply)
          \/ respondToUserBookReview(p, reply)
     \/ \E reply \in Responses :
          \/ summarizeTopic(reply)
          \/ consolidateMemory(reply)
     \/ \E history \in SeqsUpTo(ChatTurns, MaxTurns), p \in ServicePersonas,
           reply \in Responses :
          chatWithPersona(UserMessage, history, p, reply)
     \/ \E p \in ServicePersonas, reply \in ScanReplies : autonomousScan(p, reply)
     \/ generateSoulReport

SpecService == InitService /\ [][NextService]_vars

----------------------------------------------------------------------------
(* Page scans with the provider's reply: the continuation of               *)
(* handlePageChange, or of the initial scan, with what autonomousScan      *)
(* makes of the reply.                                                     *)

\* scan request i is answered with `reply`
scanResponds(i, reply) ==
  /\ i \in 1..Len(scanTasks)
  /\ LET t == scanTasks[i]
         results == autonomousScanValue(reply)
         newAnnos == newAnnosOf(results, t.existingSelections, t.bookId, t.personaId)
     IN /\ Len(annotations) + Len(newAnnos) <= MaxAnnotations
        /\ call' = [ op |-> "autonomousScan", kind |-> t.kind, reply |-> reply,
                     threw |-> FALSE, value |-> results ]
        /\ annotations' = newAnnos \o annotations
        /\ toast' = IF Len(newAnnos) = 0 THEN toast
                    ELSE IF t.kind = "page" THEN "added thoughts"
                    ELSE "found initial thoughts"
        /\ isAutoScanning' = IF t.kind = "page" THEN FALSE ELSE isAutoScanning
  /\ scanTasks' = RemoveAt(scanTasks, i)
  /\ UNCHANGED <<appState, activeBookId, library, originals, nextBookId,
                 customPersonas, nextPersonaId, persona, engineConfig,
                 isProcessing, pendingSelection, lastScannedPageRef,
                 lastConsolidatedCountRef, view, scanTimers, memTasks,
                 aiTasks, scannedPages, engine, modalVars>>

\* replies to a page scan: a failed call, a fenced text that is not JSON,
\* and a fenced array with one passage
PageReplies ==
  { [ ok |-> FALSE, text |-> <<>> ],
    [ ok |-> TRUE, text |-> << "[fence]json", "Sorry", "[fence]" >> ],
    [ ok |-> TRUE, text |-> << "[fence]json" >> \o jsonArray(<< "X" >>) \o << "[fence]" >> ] }

(* Page deliveries as in SpecPages, with the provider's replies.            *)
NextReplies ==
  \/ Render
  \/ ToastClose
  \/ LibraryStep
  \/ \E content \in Pages : handlePageChange(content)
  \/ \E i \in 1..MaxInFlight, reply \in PageReplies : scanResponds(i, reply)

SpecReplies == InitScan /\ [][NextReplies]_vars

\* this step is the continuation of a page scan
PageScanAnswered ==
  /\ Len(scanTasks') < Len(scanTasks)
  /\ call'.op = "autonomousScan"
  /\ call'.kind = "page"

\* C12: when the provider call of autonomousScan fails, or its reply is not
\* valid JSON after the code fences are stripped, autonomousScan returns the
\* empty list without throwing, and the page-change handler adds no
\* annotation, shows no message and clears the scanning flag.
C12_FailedScanIsSilent ==
  [][ (PageScanAnswered /\ call'.reply \in FailedScanReplies)
        => /\ ~call'.threw
           /\ call'.value = <<>>
           /\ annotations' = annotations
           /\ toast' = toast
           /\ isAutoScanning' = FALSE ]_vars

\* a page scan was answered with a fenced text that is not JSON; nothing
\* was added, nothing is shown and the scanning flag is clear
C12_Witness ==
  /\ call.op = "autonomousScan"
  /\ call.kind = "page"
  /\ call.reply = [ ok |-> TRUE, text |-> << "[fence]json", "Sorry", "[fence]" >> ]
  /\ scanTasks = <<>>
  /\ annotations = <<>>
  /\ toast = NoToast
  /\ ~isAutoScanning

----------------------------------------------------------------------------
(***************************************************************************)
(* The annotation thread (AnnotationModal in                               *)
(* src/components/AnnotationActionModal.tsx) and the review form           *)
(* (ReadingReportModal), with the App handlers they save through           *)
(* (handleUpdateAnnotation, handleSaveReview).                             *)
(***************************************************************************)

(* Bounds *)
MaxThread == 3           \* longest thread on screen from which a turn is sent

(* Inputs *)
Ratings == { 5 }
UserReviews == { << "r" >> }
FALLBACK_REPLY == << "I'm reflecting on your thought..." >>
CLOUDED_REPLY == << "Forgive me, my thoughts are clouded right now." >>

\* replies to a call of one of the modals: a failed call, a text
ModalReplies ==
  { [ ok |-> FALSE, text |-> <<>> ], [ ok |-> TRUE, text |-> << "t" >> ] }

modelTurn(text) == [ role |-> "model", text |-> text ]

noteTurn(text) == [ role |-> "user", text |-> text ]

\* the task is marked as belonging to a modal that was closed
Detached(tasks) == [ i \in 1..Len(tasks) |-> [ tasks[i] EXCEPT !.live = FALSE ] ]

\* the user opens annotation n: the modal mounts and its effect runs
openAnnotationModal(n) ==
  /\ activeAnnotation = Null
  /\ activeAnnotation' = n
  /\ IF chatHistory[n] # <<>>
     THEN /\ messages' = chatHistory[n]
          /\ UNCHANGED <<chatHistory, isTyping, replyTasks>>
     ELSE IF authorOf(n) = "user"
     THEN /\ Len(replyTasks) < MaxInFlight
          /\ messages' = << noteTurn(commentOf(n)) >>
          /\ isTyping' = TRUE
          /\ replyTasks' = Append(replyTasks,
                                  [ kind |-> "reply", annotation |-> n, live |-> TRUE,
                                    history |-> << noteTurn(commentOf(n)) >>,
                                    before |-> chatHistory[n] ])
          /\ UNCHANGED chatHistory
     ELSE /\ messages' = << modelTurn(commentOf(n)) >>
          /\ chatHistory' = [ chatHistory EXCEPT ![n] = << modelTurn(commentOf(n)) >> ]
          /\ UNCHANGED <<isTyping, replyTasks>>
  /\ UNCHANGED <<bookReview, isSubmittingReview, appVars, serviceVars>>

\* onClose: the modal unmounts; the calls it started stay in flight
closeAnnotationModal ==
  /\ activeAnnotation # Null
  /\ activeAnnotation' = Null
  /\ messages' = <<>>
  /\ isTyping' = FALSE
  /\ replyTasks' = Detached(replyTasks)
  /\ UNCHANGED <<chatHistory, bookReview, isSubmittingReview, appVars, serviceVars>>

\* handleSend up to its await: the user's turn is shown and saved
handleSend(userMsg) ==
  /\ activeAnnotation # Null
  /\ ~isTyping
  /\ Len(messages) < MaxThread
  /\ Len(replyTasks) < MaxInFlight
  /\ LET newHistory == Append(messages, noteTurn(userMsg))
     IN /\ messages' = newHistory
        /\ chatHistory' = [ chatHistory EXCEPT ![activeAnnotation] = newHistory ]
        /\ replyTasks' = Append(replyTasks,
                                [ kind |-> "chat", annotation |-> activeAnnotation,
                                  live |-> TRUE, history |-> newHistory,
                                  before |-> chatHistory[activeAnnotation],
                                  sent |-> chatContents(userMsg, messages) ])
  /\ isTyping' = TRUE
  /\ UNCHANGED <<activeAnnotation, bookReview, isSubmittingReview, appVars,
                 serviceVars>>

\* the state of the modal after a continuation of task t has set `shown`
ModalShows(t, shown) ==
  IF t.live
  THEN messages' = shown /\ isTyping' = FALSE
  ELSE UNCHANGED <<messages, isTyping>>

\* the provider answers call i of the annotation modal: the rest of the
\* effect's init (kind "reply") or of handleSend (kind "chat")
chatReturns(i, reply) ==
  /\ i \in 1..Len(replyTasks)
  /\ replyTasks[i].kind \in { "reply", "chat" }
  /\ LET t == replyTasks[i]
         answered == Append(t.history, modelTurn(shortOrDots(reply.text)))
     IN /\ call' = [ op |-> IF t.kind = "chat" THEN "chatWithPersona"
                            ELSE "generateAIResponseToUserNote",
                     kind |-> t.kind, reply |-> reply, threw |-> ~reply.ok,
                     value |-> IF reply.ok THEN shortOrDots(reply.text) ELSE <<>> ]
        /\ IF reply.ok
           THEN /\ ModalShows(t, answered)
                /\ chatHistory' = [ chatHistory EXCEPT ![t.annotation] = answered ]
           ELSE IF t.kind = "reply"
           THEN /\ ModalShows(t, Append(messages, modelTurn(FALLBACK_REPLY)))
                /\ chatHistory' = [ chatHistory EXCEPT ![t.annotation] =
                                      Append(t.history, modelTurn(FALLBACK_REPLY)) ]
           ELSE /\ ModalShows(t, Append(messages, modelTurn(CLOUDED_REPLY)))
                /\ UNCHANGED chatHistory
  /\ replyTasks' = RemoveAt(replyTasks, i)
  /\ UNCHANGED <<activeAnnotation, bookReview, isSubmittingReview, appVars, engine>>

\* handleReviewSubmit up to its await; the button is disabled while a
\* reply is awaited
handleReviewSubmit(userRating, userReview) ==
  /\ ~isSubmittingReview
  /\ userRating # 0
  /\ Trim(userReview) # <<>>
  /\ Len(replyTasks) < MaxInFlight
  /\ isSubmittingReview' = TRUE
  /\ replyTasks' = Append(replyTasks,
                          [ kind |-> "review", rating |-> userRating,
                            review |-> userReview, live |-> TRUE,
                            before |-> bookReview ])
  /\ UNCHANGED <<activeAnnotation, chatHistory, messages, isTyping, bookReview,
                 appVars, serviceVars>>

\* the provider answers the review: the rest of handleReviewSubmit, with
\* handleSaveReview
reviewReturns(i, reply) ==
  /\ i \in 1..Len(replyTasks)
  /\ replyTasks[i].kind = "review"
  /\ LET t == replyTasks[i]
     IN /\ call' = [ op |-> "respondToUserBookReview", kind |-> t.kind,
                     reply |-> reply, threw |-> ~reply.ok,
                     value |-> IF reply.ok THEN reviewReplyValue(reply.text) ELSE <<>> ]
        /\ IF reply.ok
           THEN /\ bookReview' = [ rating |-> t.rating, userReview |-> t.review,
                                   aiReview |-> <<>> ]
                /\ toast' = "Review saved!"
           ELSE UNCHANGED <<bookReview, toast>>
  /\ isSubmittingReview' = FALSE
  /\ replyTasks' = RemoveAt(replyTasks, i)
  /\ UNCHANGED <<appState, activeBookId, library, originals, nextBookId,
                 customPersonas, nextPersonaId, persona, engineConfig,
                 annotations, isProcessing, isAutoScanning, pendingSelection,
                 lastScannedPageRef, lastConsolidatedCountRef, view,
                 scanTimers, scanTasks, memTasks, aiTasks, scannedPages,
                 engine, activeAnnotation, chatHistory, messages, isTyping>>

(* The threads and the review of one open book: a key is stored, the       *)
(* scheduler and autonomous reading are off.                                *)
InitModals ==
  InitWith([ apiKey |-> TRUE, autoMemoryThreshold |-> 0,
             autonomousReading |-> FALSE ])

NextModals ==
  \/ \E n \in Notes : openAnnotationModal(n)
  \/ closeAnnotationModal
  \/ handleSend(UserMessage)
  \/ \E i \in 1..MaxInFlight, reply \in ModalReplies : chatReturns(i, reply)
  \/ \E userRating \in Ratings, userReview \in UserReviews :
       handleReviewSubmit(userRating, userReview)
  \/ \E i \in 1..MaxInFlight, reply \in ModalReplies : reviewReturns(i, reply)
  \/ ToastClose

SpecModals == InitModals /\ [][NextModals]_vars

\* this step is the continuation of call i of a modal, and the call failed
ModalCallFailed(i) ==
  /\ i \in 1..Len(replyTasks)
  /\ replyTasks' = RemoveAt(replyTasks, i)
  /\ call'.kind = replyTasks[i].kind
  /\ call'.threw

\* what is stored for the subject of task t: the thread of its annotation,
\* or the review of the book
StoredFor(t, threads, review) ==
  IF t.kind = "review" THEN review ELSE threads[t.annotation]

\* an error is on screen: an error toast, or the error turn at the end of
\* the thread of the open modal
ErrorToasts == { "AI Error", "Error saving note" }

ErrorOnScreen(shownToast, shownMessages) ==
  \/ shownToast \in ErrorToasts
  \/ /\ shownMessages # <<>>
     /\ shownMessages[Len(shownMessages)] = modelTurn(CLOUDED_REPLY)

\* C11: when the provider call of a user-initiated free-text operation (a
\* chat turn, the reply to a user note, the reply to a review) fails, the
\* error is presented to the user and what is stored (the thread of the
\* annotation, the review of the book) is exactly what it was before the
\* operation started.
C11_FailureShownNothingStored ==
  [][ \A i \in 1..MaxInFlight :
        ModalCallFailed(i)
          => /\ StoredFor(replyTasks[i], chatHistory', bookReview')
                  = replyTasks[i].before
             /\ ErrorOnScreen(toast', messages') ]_vars

----------------------------------------------------------------------------
(* Properties of the provider service *)

\* min(5, max(1, v))
ClampOneToFive(v) == IF v < 1 THEN 1 ELSE IF v > 5 THEN 5 ELSE v

\* C14 as stated: the N of the scan prompt is the stored
\* autoAnnotationCount clamped to [1, 5], for every integer value, so that
\* 0 gives 1 and 10 gives 5.
C14_ClampEveryInteger ==
  call.op = "autonomousScan"
    => call.count = ClampOneToFive(engine.autoAnnotationCount)

\* C14 amended: N is always within [1, 5]; it is the stored value clamped
\* to [1, 5] for every stored value other than 0, and the default 2 when 0
\* is stored.
C14_ClampNonZeroDefaultForZero ==
  call.op = "autonomousScan"
    => /\ call.count \in 1..5
       /\ engine.autoAnnotationCount # 0
            => call.count = ClampOneToFive(engine.autoAnnotationCount)
       /\ engine.autoAnnotationCount = 0 => call.count = 2

\* a scan was requested with a stored count above 5 and asked for 5
C14_Witness ==
  /\ call.op = "autonomousScan"
  /\ engine.autoAnnotationCount > 5
  /\ call.count = 5

\* a call has been made
Made == call.op # "none"

\* the operations that return free text to their caller
FreeTextOps ==
  { "generateAIAnnotation", "summarizeTopic", "generateAIResponseToUserNote",
    "chatWithPersona", "generateLongFormAIReview", "respondToUserBookReview",
    "consolidateMemory" }

\* C13: for every free-text operation an empty provider response raises no
\* error and the value handed to the caller (which the caller writes as
\* comment, topic, thread turn, review or long-term memory) is a non-empty
\* placeholder, never the empty string.
C13_EmptyReplyGivesPlaceholder ==
  (call.op \in FreeTextOps /\ call.reply.ok /\ call.reply.text = <<>>)
    => (~call.threw /\ call.value # <<>>)

\* C15: topic summarization is sent with temperature 0.3 whatever the
\* configured temperature, for both provider families.
C15_TopicTemperature ==
  call.op = "summarizeTopic" => call.request.temperature = 3

\* the models each provider family serves by default
FamilyModels(family) ==
  IF family = "gemini"
  THEN { GEMINI_DEFAULT_MODEL, GEMINI_PRO_MODEL }
  ELSE { OPENAI_DEFAULT_MODEL }

\* C16: memory consolidation is sent with temperature 0.5 whatever the
\* configured temperature and, when no model is pinned, with a default model
\* of the selected provider family, for both families.
C16_MemoryTemperatureAndModel ==
  call.op = "consolidateMemory"
    => /\ call.request.temperature = 5
       /\ engine.model = "" => call.request.model \in FamilyModels(call.request.family)

\* number of places where `part` occurs in `s`
Occurrences(s, part) ==
  Cardinality({ i \in 1..(Len(s) - Len(part) + 1) :
                  SubSeq(s, i, i + Len(part) - 1) = part })

ChatCompletions == << "/", "chat", "/", "completions" >>

\* C17: for the OpenAI family a base URL given as host, host/, host/v1 or
\* host/v1/ yields host/v1/chat/completions, with exactly one /v1 and one
\* /chat/completions, and a base URL that already ends in
\* /v1/chat/completions is returned unchanged.
C17_OpenAIEndpoint ==
  (Made /\ call.request.family = "openai")
    => /\ engine.baseUrl \in { << UserHost >>, << UserHost, "/" >>,
                               << UserHost, "/", "v1" >>,
                               << UserHost, "/", "v1", "/" >> }
            => /\ call.request.url = << UserHost, "/", "v1" >> \o ChatCompletions
               /\ Occurrences(call.request.url, << "/", "v1" >>) = 1
               /\ Occurrences(call.request.url, ChatCompletions) = 1
       /\ EndsWith(engine.baseUrl, << "/", "v1" >> \o ChatCompletions)
            => call.request.url = engine.baseUrl

\* a request went to host/v1/chat/completions for the base URL host/v1/
C17_Witness ==
  /\ Made
  /\ call.request.family = "openai"
  /\ engine.baseUrl = << UserHost, "/", "v1", "/" >>
  /\ call.request.url = << UserHost, "/", "v1" >> \o ChatCompletions

\* the URL the request of this call would have for the bare host
BareHostUrl ==
  LET bare == [ engine EXCEPT !.baseUrl = << UserHost >>,
                              !.model = call.request.model ]
  IN IF call.request.family = "gemini"
     THEN getGeminiEndpoint(bare, "generateContent")
     ELSE getOpenAIEndpoint(bare)

\* base URLs that already carry what the resolver appends
ResolvedForms(family) ==
  IF family = "gemini"
  THEN { << UserHost, "/", "v1", "beta" >>, << UserHost, "/", "v1", "beta", "/" >>,
         << UserHost, "/", "v1", "beta", "/", "models", "/", GEMINI_DEFAULT_MODEL,
            ":", "generateContent" >> }
  ELSE { << UserHost, "/", "v1" >>, << UserHost, "/", "v1", "/" >>,
         << UserHost, "/", "v1" >> \o ChatCompletions }

\* C18: endpoint resolution is idempotent for both families: a base URL that
\* already contains the version or the path and method suffix resolves to
\* the same URL as the bare host, with no segment doubled.
C18_ResolutionIdempotent ==
  (Made /\ engine.baseUrl \in ResolvedForms(call.request.family))
    => /\ call.request.url = BareHostUrl
       /\ Occurrences(call.request.url, << "models" >>) <= 1
       /\ Occurrences(call.request.url, << "v1" >>) = 1

\* the calls that pass a system instruction and do not ask for JSON
PlainCall == Made /\ call.systemInstruction # <<>> /\ ~call.json

\* C19: for any list of turns and a non-empty system instruction S the
\* OpenAI adapter outputs [{system, S}] followed by one message per input
\* turn, in order, with the role model mapped to assistant and user kept.
C19_AdapterOutput ==
  (PlainCall /\ call.request.family = "openai")
    => LET out == call.request.messages
       IN /\ Len(out) = Len(call.contents) + 1
          /\ out[1] = [ role |-> "system", content |-> call.systemInstruction ]
          /\ \A i \in 1..Len(call.contents) :
               /\ out[i + 1].role = IF call.contents[i].role = "model"
                                    THEN "assistant" ELSE "user"
               /\ call.contents[i].role = "user" => out[i + 1].role = "user"
               /\ out[i + 1].content = call.contents[i].parts[1]

\* a chat with a user turn and a model turn in the thread was adapted
C19_Witness ==
  /\ call.op = "chatWithPersona"
  /\ call.request.family = "openai"
  /\ Len(call.contents) = 3
  /\ call.contents[1].role = "user" /\ call.contents[2].role = "model"
  /\ call.request.messages[2].role = "user"
  /\ call.request.messages[3].role = "assistant"

\* the messages of the request other than system messages
NonSystem(msgs) == SelectSeq(msgs, LAMBDA m : m.role # "system")

\* C20: a Family B request in JSON mode carries a system message that
\* mentions "JSON"; the requirement is appended to the system message when
\* it does not mention it, exactly once, and no user or assistant message
\* is altered, also when the caller supplied no system instruction.
C20_JsonModeSystemMessage ==
  (Made /\ call.json /\ call.request.family = "openai")
    => LET out == call.request.messages
       IN /\ \E i \in 1..Len(out) :
               out[i].role = "system" /\ Includes(out[i].content, << "JSON" >>)
          /\ \A i \in 1..Len(out) :
               out[i].role = "system"
                 => Occurrences(out[i].content, JSON_REQUIREMENT) =
                      IF Includes(call.systemInstruction, << "JSON" >>) THEN 0 ELSE 1
          /\ NonSystem(out) = mapGeminiToOpenAI(call.contents, <<>>)

----------------------------------------------------------------------------
(* Properties of the annotation thread *)

\* the chat calls in flight
ChatCalls == { i \in 1..Len(replyTasks) : replyTasks[i].kind = "chat" }

\* the thread the modal showed when call i was sent, and the input sent
priorThread(i) == SubSeq(replyTasks[i].history, 1, Len(replyTasks[i].history) - 1)

newestInput(i) == replyTasks[i].history[Len(replyTasks[i].history)].text

\* C21: in every conversation sent to a provider for a chat turn, the last
\* element is a user turn carrying the newest user input, and the earlier
\* elements are the turns of the thread the modal showed before the send, in
\* their order, none dropped and none duplicated.
C21_ChatConversation ==
  \A i \in ChatCalls :
    LET sent == replyTasks[i].sent
        prior == priorThread(i)
    IN /\ Len(sent) = Len(prior) + 1
       /\ sent[Len(sent)].role = "user"
       /\ Len(sent[Len(sent)].parts) = 1
       /\ Includes(sent[Len(sent)].parts[1], newestInput(i))
       /\ \A k \in 1..Len(prior) :
            /\ sent[k].role = prior[k].role
            /\ sent[k].parts = << prior[k].text >>

\* a chat turn is in flight whose prior thread holds a model turn followed
\* by a user turn
C21_Witness ==
  \E i \in ChatCalls :
    \E k, l \in 1..Len(priorThread(i)) :
      k < l /\ priorThread(i)[k].role = "model" /\ priorThread(i)[l].role = "user"

----------------------------------------------------------------------------
(***************************************************************************)
(* A note of the user, from the action modal to its thread:                *)
(* handleUserAnnotate (src/unnamed/part_004), the AnnotationModal that     *)
(* App renders for activeAnnotationId, and the chat in it.                 *)
(***************************************************************************)

\* the passage the user writes the note on; the thought that a page scan
\* left in the book is on passage Z
NoteAnchor == "X"

\* the note of the user is in the annotation list
NoteStored == \E k \in 1..Len(annotations) : annotations[k].textSelection = NoteAnchor

\* handleUserAnnotate after its await: summarizeTopic returned or threw.
\* setActiveAnnotationId makes App render AnnotationModal for the note: a
\* modal that is not open mounts and its effect loads the thread; a modal
\* that is open stays the same component, keeps its messages, and its
\* effect returns at once (initialized.current).
noteReturns(i, reply) ==
  /\ i \in 1..Len(aiTasks)
  /\ aiTasks[i].kind = "user"
  /\ LET t == aiTasks[i]
         created == << noteTurn(commentOf("note")) >>
     IN IF reply.ok
        THEN /\ Len(annotations) < MaxAnnotations
             /\ annotations' = << [ bookId |-> t.bookId, textSelection |-> t.selection,
                                    author |-> "user", isAutonomous |-> FALSE ] >>
                               \o annotations
             /\ chatHistory' = [ chatHistory EXCEPT !["note"] = created ]
             /\ activeAnnotation' = "note"
             /\ messages' = IF activeAnnotation = Null THEN created ELSE messages
             /\ toast' = "Note saved"
        ELSE /\ UNCHANGED <<annotations, chatHistory, activeAnnotation, messages>>
             /\ toast' = "Error saving note"
  /\ call' = [ op |-> "summarizeTopic", kind |-> "user", reply |-> reply,
               threw |-> ~reply.ok,
               value |-> IF reply.ok THEN summarizeTopicValue(reply.text) ELSE <<>> ]
  /\ isProcessing' = FALSE
  /\ aiTasks' = RemoveAt(aiTasks, i)
  /\ UNCHANGED <<appState, activeBookId, library, originals, nextBookId,
                 customPersonas, nextPersonaId, persona, engineConfig,
                 isAutoScanning, pendingSelection, lastScannedPageRef,
                 lastConsolidatedCountRef, view, scanTasks, scanTimers,
                 memTasks, scannedPages, engine, isTyping, bookReview,
                 isSubmittingReview, replyTasks>>

\* book 1 is open with one thought of a page scan in it; a key is stored,
\* the scheduler and autonomous reading are off
InitNote ==
  LET cfg == [ apiKey |-> TRUE, autoMemoryThreshold |-> 0,
               autonomousReading |-> FALSE ]
      found == << [ bookId |-> 1, textSelection |-> "Z",
                    author |-> "ai", isAutonomous |-> TRUE,
                    personaId |-> DEFAULT_PERSONAS[1].id ] >>
  IN /\ appState = "reading"
     /\ activeBookId = 1
     /\ library = {1}
     /\ originals = {}
     /\ nextBookId = 2
     /\ customPersonas = <<>>
     /\ nextPersonaId = 1
     /\ persona = DEFAULT_PERSONAS[1]
     /\ engineConfig = cfg
     /\ annotations = found
     /\ isProcessing = FALSE
     /\ isAutoScanning = FALSE
     /\ pendingSelection = Null
     /\ lastScannedPageRef = "A"
     /\ lastConsolidatedCountRef = 0
     /\ toast = NoToast
     /\ view = Snapshot(1, {1}, found, DEFAULT_PERSONAS[1], <<>>, cfg,
                        FALSE, FALSE, Null)
     /\ scanTimers = <<>>
     /\ scanTasks = <<>>
     /\ memTasks = <<>>
     /\ aiTasks = <<>>
     /\ scannedPages = {"A"}
     /\ ServiceIdle
     /\ activeAnnotation = Null
     /\ chatHistory = [ n \in Notes |-> <<>> ]
     /\ messages = <<>>
     /\ isTyping = FALSE
     /\ bookReview = NoReview
     /\ isSubmittingReview = FALSE
     /\ replyTasks = <<>>

NextNote ==
  \/ Render
  \/ ToastClose
  \/ ~NoteStored /\ activeAnnotation = Null
       /\ handleAnnotateSelection(NoteAnchor, "user")
  \/ handleUserAnnotate
  \/ closeActionModal
  \/ \E i \in 1..MaxInFlight, reply \in ModalReplies : noteReturns(i, reply)
  \/ \E n \in Notes :
       /\ n = "note" => NoteStored
       /\ pendingSelection = Null
       /\ openAnnotationModal(n)
  \/ closeAnnotationModal
  \/ handleSend(UserMessage)
  \/ \E i \in 1..MaxInFlight,
          reply \in ModalReplies \cup { [ ok |-> TRUE, text |-> LongText ] } :
       chatReturns(i, reply)

\* both modals cover the page: a passage is selected while no thread is
\* open, and a thread is opened while no selection is pending
SpecNote == InitNote /\ [][NextNote]_vars

\* the author of the stored note
noteAuthors == { annotations[k].author : k \in { j \in 1..Len(annotations) :
                   annotations[j].textSelection = NoteAnchor } }

\* the model turns that follow the first turn of a thread, up to the next
\* turn of the user
repliesToFirst(thread) ==
  LET users == { k \in 2..Len(thread) : thread[k].role = "user" }
      next == IF users = {} THEN Len(thread) + 1
              ELSE CHOOSE k \in users : \A l \in users : k <= l
  IN next - 2

\* C22: once the note of the user is stored, the annotation has author user
\* and a stored thread whose first turn is {user, note}; at most one model
\* reply follows the note, every model turn of the thread has at most 100
\* characters, and the note stays stored with author user through the chat
\* turns that follow.
C22_NoteThread ==
  /\ [](NoteStored =>
         /\ noteAuthors = { "user" }
         /\ chatHistory["note"] # <<>>
         /\ chatHistory["note"][1] = noteTurn(commentOf("note"))
         /\ repliesToFirst(chatHistory["note"]) <= 1
         /\ \A k \in 1..Len(chatHistory["note"]) :
              chatHistory["note"][k].role = "model"
                => Len(chatHistory["note"][k].text) <= COMMENT_LIMIT)
  /\ [][NoteStored => NoteStored']_vars

----------------------------------------------------------------------------
(* Properties of the short replies *)

ShortReplyOps ==
  { "generateAIAnnotation", "generateAIResponseToUserNote", "chatWithPersona" }

\* the first n characters of a text
firstChars(text, n) ==
  [ k \in 1..(IF Len(text) < n THEN Len(text) ELSE n) |-> text[k] ]

\* C23: the text returned by single annotation, reply-to-note and chat-turn
\* generation is never empty and never longer than 100 characters: it is the
\* first 100 characters of the provider text, or "..." when that is empty.
C23_ShortReply ==
  (call.op \in ShortReplyOps /\ ~call.threw)
    => /\ call.value # <<>>
       /\ Len(call.value) <= COMMENT_LIMIT
       /\ call.value = IF call.reply.text = <<>> THEN << "..." >>
                       ELSE firstChars(call.reply.text, COMMENT_LIMIT)

\* a chat turn was answered with a text over the limit, and what is
\* returned has exactly 100 characters
C23_Witness ==
  /\ call.op = "chatWithPersona"
  /\ ~call.threw
  /\ Len(call.reply.text) > COMMENT_LIMIT
  /\ Len(call.value) = COMMENT_LIMIT

----------------------------------------------------------------------------
(***************************************************************************)
(* The scheduler over a stored shelf: the library and the annotations of   *)
(* an earlier session are read from localStorage, and no annotation is     *)
(* added.                                                                  *)
(***************************************************************************)

\* the stored books
Shelf == { 1, 2 }

\* the stored annotations: two of book 1, one of book 2
StoredAnnotations ==
  << [ bookId |-> 1, textSelection |-> "X", author |-> "ai", isAutonomous |-> FALSE ],
     [ bookId |-> 1, textSelection |-> "Y", author |-> "ai", isAutonomous |-> FALSE ],
     [ bookId |-> 2, textSelection |-> "X", author |-> "ai", isAutonomous |-> FALSE ] >>

\* the state after mounting with the stored shelf, the stored settings
\* `cfg` and the stored annotations `annos`
InitStored(cfg, annos) ==
     /\ appState = "library"
     /\ activeBookId = NoBook
     /\ library = Shelf
     /\ originals = {}
     /\ nextBookId = 3
     /\ customPersonas = <<>>
     /\ nextPersonaId = 1
     /\ persona = DEFAULT_PERSONAS[1]
     /\ engineConfig = cfg
     /\ annotations = annos
     /\ isProcessing = FALSE
     /\ isAutoScanning = FALSE
     /\ pendingSelection = Null
     /\ lastScannedPageRef = Null
     /\ lastConsolidatedCountRef = 0
     /\ toast = NoToast
     /\ view = Snapshot(NoBook, Shelf, annos, DEFAULT_PERSONAS[1],
                        <<>>, cfg, FALSE, FALSE, Null)
     /\ scanTimers = <<>>
     /\ scanTasks = <<>>
     /\ memTasks = <<>>
     /\ aiTasks = <<>>
     /\ scannedPages = {}
     /\ ServiceIdle
     /\ ModalsClosed

\* a stored key and the threshold 1, autonomous reading off
InitShelf ==
  InitStored([ apiKey |-> TRUE, autoMemoryThreshold |-> 1,
               autonomousReading |-> FALSE ], StoredAnnotations)

\* the user switches books, changes the settings and the persona; nothing
\* is annotated
NextShelf ==
  \/ Render
  \/ ToastClose
  \/ \E id \in Shelf : onSelectBook(id)
  \/ backToLibrary
  \/ \E newConfig \in { c \in Configs : ~c.autonomousReading } : onSaveSettings(newConfig)
  \/ PersonaStep
  \/ \E i \in 1..MaxInFlight : memoryReturns(i, "m1")
  \/ \E i \in 1..MaxInFlight : memoryFails(i)

SpecShelf == InitShelf /\ [][NextShelf]_vars

\* a consolidation has fired since the program started
HasFired == lastConsolidatedCountRef # 0

\* C24: a consolidation fires only on annotation-count growth: once one has
\* fired, switching the active book, changing the threshold, the persona or
\* the configuration, with no annotation added, starts no consolidation.
C24_FiresOnlyOnGrowth ==
  [][ HasFired /\ annotations' = annotations => ~Fired ]_vars

----------------------------------------------------------------------------
(* Consolidation and the persona the user chose *)

\* C25: the completion of an auto-consolidation changes only the long-term
\* memory of the persona it was started for: the active persona is still the
\* one the user chose, it is untouched when it is another persona, and the
\* registry entries of the other personas are untouched.
C25_CompletionKeepsChosenPersona ==
  [][ \A i \in 1..MaxInFlight :
        SucceededStep(i) =>
          /\ persona'.id = persona.id
          /\ persona.id # memTasks[i].persona.id => persona' = persona
          /\ Len(customPersonas') = Len(customPersonas)
          /\ \A k \in 1..Len(customPersonas) :
               customPersonas[k].id # memTasks[i].persona.id
                 => customPersonas'[k] = customPersonas[k] ]_vars

----------------------------------------------------------------------------
(***************************************************************************)
(* The in-progress flags: page scans and explicit requests together, with  *)
(* every provider call returning in the end.  The flags do not read the    *)
(* toast, whose timer is left out.  autonomousScan returns the empty list  *)
(* when the call fails and when nothing is found; the scans that add       *)
(* thoughts are followed in SpecScan and SpecPages.                        *)
(***************************************************************************)

NextFlags ==
  \/ Render
  \/ handleImportBook
  \/ \E content \in Pages : handlePageChange(content)
  \/ \E i \in 1..MaxInFlight : scanReturns(i, <<>>)
  \/ \E intent \in { "ai", "user" } : handleAnnotateSelection("Y", intent)
  \/ handleUserAnnotate
  \/ closeActionModal
  \/ \E i \in 1..MaxInFlight, ok \in BOOLEAN : annotationReturns(i, ok)

\* a fetch settles: the oldest call of each kind returns or throws
SpecFlags ==
  /\ InitScan /\ [][NextFlags]_vars
  /\ WF_vars(scanReturns(1, <<>>))
  /\ WF_vars(\E ok \in BOOLEAN : annotationReturns(1, ok))

\* the page scans in flight
PageScans == { i \in 1..Len(scanTasks) : scanTasks[i].kind = "page" }

\* this step is the continuation of page scan i / of explicit request i
PageScanReturned(i) == i \in PageScans /\ scanTasks' = RemoveAt(scanTasks, i)

RequestReturned(i) == i \in 1..Len(aiTasks) /\ aiTasks' = RemoveAt(aiTasks, i)

\* C26: every page scan and every explicit annotation request clears its
\* in-progress flag when its provider call returns, on success and on
\* failure; a flag that is set is cleared in the end, and no flag is set
\* while no request of its kind is outstanding.
C26_FlagsCleared ==
  /\ [](isAutoScanning => PageScans # {})
  /\ [](isProcessing => aiTasks # <<>>)
  /\ [][ \A i \in 1..MaxInFlight :
           /\ PageScanReturned(i) => ~isAutoScanning'
           /\ RequestReturned(i) => ~isProcessing' ]_vars
  /\ isAutoScanning ~> ~isAutoScanning
  /\ isProcessing ~> ~isProcessing

\* an explicit request has failed and a page scan has returned; both flags
\* are clear and nothing is outstanding
C26_Witness ==
  /\ toast \in ErrorToasts
  /\ scannedPages # {}
  /\ scanTasks = <<>> /\ aiTasks = <<>>
  /\ ~isAutoScanning /\ ~isProcessing

----------------------------------------------------------------------------
(* Anchors of the autonomous annotations *)

\* the positions of the autonomously created annotations of a book
autonomousOf(bookId) ==
  { k \in 1..Len(annotations) :
      annotations[k].bookId = bookId /\ annotations[k].isAutonomous }

\* C27: after any sequence of autonomous scans of a book (page scans and
\* the initial scan of a created book), no two autonomously created
\* annotations of the book have the same anchor text, also when one scan
\* result lists a passage twice.
C27_AutonomousAnchorsDistinct ==
  \A bookId \in 1..MaxBooks :
    \A k, l \in autonomousOf(bookId) :
      k # l => annotations[k].textSelection # annotations[l].textSelection

----------------------------------------------------------------------------
(***************************************************************************)
(* Page scans while the reader changes book and persona: the stored shelf  *)
(* without annotations, a stored key, autonomous reading on.               *)
(***************************************************************************)

\* the persona changes when the user creates one, which becomes the active
\* persona; the toast stays until the next one; every scan finds passage X
NextAttach ==
  \/ Render
  \/ \E id \in Shelf : onSelectBook(id)
  \/ backToLibrary
  \/ createPersona("")
  \/ \E content \in Pages : handlePageChange(content)
  \/ \E i \in 1..MaxInFlight, results \in { << "X" >> } : scanReturns(i, results)

SpecAttach ==
  /\ InitStored([ apiKey |-> TRUE, autoMemoryThreshold |-> 0,
                  autonomousReading |-> TRUE ], <<>>)
  /\ [][NextAttach]_vars

\* the annotations this step has put in front of the list
addedBy(before, after) == SubSeq(after, 1, Len(after) - Len(before))

\* C28: the annotations of a page scan are attached to the book and the
\* persona that were active when the scan started: the request is started
\* for the active book and persona, and what its continuation adds carries
\* their ids whatever book and persona are active then.
C28_AttachedToBookAtStart ==
  /\ [][ (ScanStarted /\ scanTasks'[Len(scanTasks')].kind = "page")
          => /\ scanTasks'[Len(scanTasks')].bookId = activeBookId
             /\ scanTasks'[Len(scanTasks')].personaId = persona.id ]_vars
  /\ [][ \A i \in 1..MaxInFlight :
           ScanReturnedStep(i) =>
             \A a \in Range(addedBy(annotations, annotations')) :
               /\ a.bookId = scanTasks[i].bookId
               /\ a.personaId = scanTasks[i].personaId ]_vars

\* a page scan has just added a thought (it is not rendered yet) to a book
\* and for a persona that are not the ones now active
C28_Witness ==
  /\ toast = "added thoughts"
  /\ view # CurrentSnapshot
  /\ appState = "reading"
  /\ activeBookId \in library
  /\ annotations # <<>>
  /\ annotations[1].bookId # activeBookId
  /\ annotations[1].personaId # persona.id

----------------------------------------------------------------------------
(* The stored thread and the thread on screen *)

\* this step is the continuation of chat call i, whose modal is still open
ChatSendCompleted(i) ==
  /\ i \in ChatCalls
  /\ replyTasks[i].live
  /\ replyTasks' = RemoveAt(replyTasks, i)

\* C29: when a chat send completes, after a reply or after a failed call,
\* the stored chatHistory of the annotation is the thread the modal shows,
\* turn for turn.
C29_StoredThreadIsShownThread ==
  [][ \A i \in 1..MaxInFlight :
        ChatSendCompleted(i)
          => chatHistory'[replyTasks[i].annotation] = messages' ]_vars

----------------------------------------------------------------------------
(* The persona registry *)

\* C30: after any sequence of persona saves and deletes, the ids of the
\* registry (built-in and user-created personas) are unique, also after an
\* edit of a built-in persona is saved.
C30_PersonaIdsUnique ==
  LET registry == allPersonas(customPersonas)
  IN \A k, l \in 1..Len(registry) : k # l => registry[k].id # registry[l].id

====
